---- MODULE Spec2Model ----
(***************************************************************************)
(* Model of functions/index.js: the callable fetchClaudeUsage in its two   *)
(* variants.  Variant A queries the claude_code analytics endpoint for     *)
(* today and falls back to yesterday; variant B queries the messages       *)
(* endpoint for the current month.  Both reduce the returned records and   *)
(* overwrite hub_status/token_usage/claude in the realtime database.       *)
(*                                                                         *)
(* Time is a monotonic clock of ticks read by new Date() and Date.now();   *)
(* a calendar date string (toISOString().split("T")[0]) is modelled by the *)
(* number of the UTC day that holds the instant.                           *)
(***************************************************************************)
EXTENDS Integers, Sequences, FiniteSets, TLC

VARIABLES
    clock,        \* the wall clock, in ticks
    db,           \* value stored at hub_status/token_usage/claude
    lastWriter,   \* history: invocation whose set() was applied last
    pc,           \* position of every invocation
    variant,      \* "A" or "B": which fetchClaudeUsage the invocation runs
    key,          \* ANTHROPIC_ADMIN_KEY.value() as read by the invocation
    startTime,    \* clock when the invocation was entered
    endTime,      \* clock when the invocation returned or threw
    now,          \* the invocation's `now`
    calls,        \* history: outbound fetch() calls the invocation issued
    inflight,     \* fetch() calls issued and not yet settled
    resp,         \* primary Response (status and body)
    fallbackResp, \* fallback Response
    records,      \* the invocation's `records` (or `result.data` in B)
    dateUsed,     \* the invocation's `dateUsed`
    usageData,    \* the invocation's `usageData`
    writes,       \* history: number of set() calls the invocation issued
    error,        \* the Error the invocation threw
    aggRecords,   \* reduction loop: the records iterated
    aggIdx,       \* reduction loop: index of the next record
    aggTotals     \* reduction loop: the ten running totals

invVars == <<pc, variant, key, startTime, endTime, now, calls, inflight, resp,
             fallbackResp, records, dateUsed, usageData, writes, error>>
aggVars == <<aggRecords, aggIdx, aggTotals>>
vars == <<clock, db, lastWriter, invVars, aggVars>>

----------------------------------------------------------------------------
(* Bounds *)

NumInvocations == 2
MaxClock == 4
TicksPerDay == 2
MaxRecords == 2

Invocations == 1..NumInvocations
StartClock == TicksPerDay

----------------------------------------------------------------------------
(* Values *)

Absent == "<undefined>"
KeyValues == {Absent, "", "sk-ant-admin"}

None == [none |-> TRUE]
NoError == [kind |-> "none"]

Statuses == {200, 500}

\* UsageRecords (variant A).  A field that the API left out is a field
\* missing from the record.
ExampleRecord ==
    [core_metrics |-> [num_sessions |-> 2,
                       lines_of_code |-> [added |-> 10, removed |-> 3],
                       commits_by_claude_code |-> 1,
                       pull_requests_by_claude_code |-> 0],
     model_breakdown |-> << [tokens |-> [input |-> 100, output |-> 50,
                                         cache_read |-> 5, cache_creation |-> 0],
                             estimated_cost |-> [amount |-> 12]] >>]

TwoModelRecord ==
    [core_metrics |-> [num_sessions |-> 1,
                       lines_of_code |-> [added |-> 4],
                       pull_requests_by_claude_code |-> 2],
     model_breakdown |-> << [tokens |-> [input |-> 7, cache_creation |-> 3],
                             estimated_cost |-> [amount |-> 1]],
                            [tokens |-> [output |-> 9, cache_read |-> 2,
                                         cache_creation |-> 1]] >>]

NoCoreRecord ==
    [model_breakdown |-> << [estimated_cost |-> [amount |-> 5]],
                            [tokens |-> [input |-> 1, output |-> 1,
                                         cache_read |-> 1, cache_creation |-> 1],
                             estimated_cost |-> [currency |-> "USD"]] >>]

NoModelsRecord ==
    [core_metrics |-> [lines_of_code |-> [removed |-> 6],
                       commits_by_claude_code |-> 3]]

EmptyModelsRecord ==
    [core_metrics |-> [num_sessions |-> 0, commits_by_claude_code |-> 2,
                       pull_requests_by_claude_code |-> 1],
     model_breakdown |-> << >>]

BareRecord == [date |-> "d"]

BareModelRecord ==
    [core_metrics |-> [num_sessions |-> 3],
     model_breakdown |-> << [model |-> "m"] >>]

UsageRecords == {ExampleRecord, TwoModelRecord, NoCoreRecord, NoModelsRecord,
                 EmptyModelsRecord, BareRecord, BareModelRecord}

RECURSIVE SeqsUpTo(_, _)
SeqsUpTo(S, n) ==
    IF n = 0 THEN {<< >>}
    ELSE LET shorter == SeqsUpTo(S, n - 1)
         IN  shorter \cup {Append(s, x) : s \in shorter, x \in S}

RecordLists == SeqsUpTo(UsageRecords, MaxRecords)

\* UsageBuckets (variant B).
FullBucket == [uncached_input_tokens |-> 10, cached_input_tokens |-> 4,
               output_tokens |-> 6]
PartialBucket == [uncached_input_tokens |-> 3]

----------------------------------------------------------------------------
(* JavaScript helpers *)

\* `obj.f || 0` for a numeric or missing f
OrZero(obj, f) == IF f \in DOMAIN obj THEN obj[f] ELSE 0

\* `obj.f?.g || 0`
OptOrZero(obj, f, g) == IF f \in DOMAIN obj THEN OrZero(obj[f], g) ELSE 0

\* A slip: `key === undefined`, which lets the empty string through.
KeyMissing_undefinedOnly(k) == k = Absent

\* `!key`
KeyMissing(k) == k \in {Absent, ""}

\* A slip: the upper end of the success range forgotten.
IsOk_noUpper(status) == status >= 200

\* Response.ok
IsOk(status) == status >= 200 /\ status <= 299

\* toISOString().split("T")[0]: the UTC calendar day of an instant
IsoDate(t) == t \div TicksPerDay

\* A slip: the day is not moved back.
Yesterday_same(t) == t

\* yesterday.setDate(yesterday.getDate() - 1) in a UTC runtime
Yesterday(t) == t - TicksPerDay

----------------------------------------------------------------------------
(* Reduction, variant A (lines 86-117) *)

TotalsZero ==
    [totalInput |-> 0, totalOutput |-> 0, totalCacheRead |-> 0,
     totalCacheCreation |-> 0, totalCostCents |-> 0, totalSessions |-> 0,
     totalLinesAdded |-> 0, totalLinesRemoved |-> 0, totalCommits |-> 0,
     totalPRs |-> 0]

\* if (record.core_metrics) { ... }
AddCoreMetrics(t, record) ==
    IF "core_metrics" \in DOMAIN record
    THEN LET cm == record.core_metrics
         IN  [t EXCEPT
                !.totalSessions = @ + OrZero(cm, "num_sessions"),
                !.totalLinesAdded = @ + OptOrZero(cm, "lines_of_code", "added"),
                !.totalLinesRemoved = @ + OptOrZero(cm, "lines_of_code", "removed"),
                !.totalCommits = @ + OrZero(cm, "commits_by_claude_code"),
                !.totalPRs = @ + OrZero(cm, "pull_requests_by_claude_code")]
    ELSE t

\* A copy-paste slip: cache_creation accumulated from cache_read.
AddModel_slip(t, model) ==
    [t EXCEPT
       !.totalInput = @ + OptOrZero(model, "tokens", "input"),
       !.totalOutput = @ + OptOrZero(model, "tokens", "output"),
       !.totalCacheRead = @ + OptOrZero(model, "tokens", "cache_read"),
       !.totalCacheCreation = @ + OptOrZero(model, "tokens", "cache_read"),
       !.totalCostCents = @ + OptOrZero(model, "estimated_cost", "amount")]

\* body of `for (const model of record.model_breakdown)`
AddModel(t, model) ==
    [t EXCEPT
       !.totalInput = @ + OptOrZero(model, "tokens", "input"),
       !.totalOutput = @ + OptOrZero(model, "tokens", "output"),
       !.totalCacheRead = @ + OptOrZero(model, "tokens", "cache_read"),
       !.totalCacheCreation = @ + OptOrZero(model, "tokens", "cache_creation"),
       !.totalCostCents = @ + OptOrZero(model, "estimated_cost", "amount")]

RECURSIVE AddModelsFrom(_, _, _)
AddModelsFrom(t, models, k) ==
    IF k > Len(models) THEN t
    ELSE AddModelsFrom(AddModel(t, models[k]), models, k + 1)

\* if (record.model_breakdown) { for (...) ... }
AddModelBreakdown(t, record) ==
    IF "model_breakdown" \in DOMAIN record
    THEN AddModelsFrom(t, record.model_breakdown, 1)
    ELSE t

\* body of `for (const record of records)`
AddRecord(t, record) == AddModelBreakdown(AddCoreMetrics(t, record), record)

RECURSIVE AddRecordsFrom(_, _, _)
AddRecordsFrom(t, recs, k) ==
    IF k > Len(recs) THEN t
    ELSE AddRecordsFrom(AddRecord(t, recs[k]), recs, k + 1)

AggregateA(recs) == AddRecordsFrom(TotalsZero, recs, 1)

(* Reduction, variant B (lines 194-201) *)

AddBucket(t, bucket) ==
    [t EXCEPT
       !.totalInput = @ + OrZero(bucket, "uncached_input_tokens")
                        + OrZero(bucket, "cached_input_tokens"),
       !.totalOutput = @ + OrZero(bucket, "output_tokens")]

RECURSIVE AddBucketsFrom(_, _, _)
AddBucketsFrom(t, buckets, k) ==
    IF k > Len(buckets) THEN t
    ELSE AddBucketsFrom(AddBucket(t, buckets[k]), buckets, k + 1)

AggregateB(buckets) ==
    AddBucketsFrom([totalInput |-> 0, totalOutput |-> 0], buckets, 1)

----------------------------------------------------------------------------
(* The summary object *)

LimitsA == [daily_input |-> 700000, daily_output |-> 300000]
LimitsB == [daily_input |-> 1000000, daily_output |-> 200000]

\* A slip: last_updated taken from the date that was used, not from Date.now().
UsageDataA_slip(t, date, stamp) ==
    [input_tokens |-> t.totalInput,
     output_tokens |-> t.totalOutput,
     cache_read_tokens |-> t.totalCacheRead,
     cache_creation_tokens |-> t.totalCacheCreation,
     estimated_cost_cents |-> t.totalCostCents,
     sessions |-> t.totalSessions,
     lines_added |-> t.totalLinesAdded,
     lines_removed |-> t.totalLinesRemoved,
     commits |-> t.totalCommits,
     pull_requests |-> t.totalPRs,
     date |-> date,
     last_updated |-> date * TicksPerDay,
     limits |-> LimitsA]

UsageDataA(t, date, stamp) ==
    [input_tokens |-> t.totalInput,
     output_tokens |-> t.totalOutput,
     cache_read_tokens |-> t.totalCacheRead,
     cache_creation_tokens |-> t.totalCacheCreation,
     estimated_cost_cents |-> t.totalCostCents,
     sessions |-> t.totalSessions,
     lines_added |-> t.totalLinesAdded,
     lines_removed |-> t.totalLinesRemoved,
     commits |-> t.totalCommits,
     pull_requests |-> t.totalPRs,
     date |-> date,
     last_updated |-> stamp,
     limits |-> LimitsA]

UsageDataB(t, stamp) ==
    [input_tokens |-> t.totalInput,
     output_tokens |-> t.totalOutput,
     last_updated |-> stamp,
     limits |-> LimitsB]

\* What was stored before any invocation ran.
PriorValue ==
    [input_tokens |-> 1, output_tokens |-> 1, last_updated |-> 0,
     note |-> "prior"]

\* update() in place of set(): the new fields merged into the stored value.
SetValue_merge(old, new) ==
    [f \in DOMAIN old \cup DOMAIN new |->
        IF f \in DOMAIN new THEN new[f] ELSE old[f]]

\* ref(...).set(value): the stored value is replaced as a whole
SetValue(old, new) == new

----------------------------------------------------------------------------
(* The remote endpoint: what a fetch() may settle with *)

BadBody == [text |-> "<html>"]
NoDataBody == [text |-> "{}", obj |-> [has_more |-> FALSE]]
DataBody(list) == [text |-> "{data}", obj |-> [data |-> list]]

ListsA == {<< >>, <<ExampleRecord>>, <<NoCoreRecord, TwoModelRecord>>}
ListsB == {<< >>, <<FullBucket, PartialBucket>>}

Bodies(v) ==
    {BadBody, NoDataBody}
        \cup {DataBody(list) : list \in IF v = "A" THEN ListsA ELSE ListsB}

Responses(v) == [status : Statuses, body : Bodies(v)]

\* resp.json() resolves iff the body is JSON text
Parses(body) == "obj" \in DOMAIN body

\* `result.data || []`
DataOf(body) == IF "data" \in DOMAIN body.obj THEN body.obj.data ELSE << >>

\* The URL of a request, by its endpoint and query parameters.
PrimaryRequest(v, t) ==
    IF v = "A"
    THEN [call |-> "primary", endpoint |-> "claude_code", starting_at |-> IsoDate(t)]
    ELSE [call |-> "primary", endpoint |-> "messages", ending_at |-> t]

FallbackRequest(t) ==
    [call |-> "fallback", endpoint |-> "claude_code",
     starting_at |-> IsoDate(Yesterday(t))]

\* A slip: `records.length <= 1`.
FallbackNeeded_offByOne(recs) == Len(recs) <= 1

\* `records.length === 0`
FallbackNeeded(recs) == Len(recs) = 0

----------------------------------------------------------------------------
(* Invocations *)

Init ==
    /\ clock = StartClock
    /\ db = PriorValue
    /\ lastWriter = 0
    /\ pc = [i \in Invocations |-> "idle"]
    /\ variant = [i \in Invocations |-> "A"]
    /\ key = [i \in Invocations |-> Absent]
    /\ startTime = [i \in Invocations |-> 0]
    /\ endTime = [i \in Invocations |-> 0]
    /\ now = [i \in Invocations |-> 0]
    /\ calls = [i \in Invocations |-> << >>]
    /\ inflight = [i \in Invocations |-> {}]
    /\ resp = [i \in Invocations |-> None]
    /\ fallbackResp = [i \in Invocations |-> None]
    /\ records = [i \in Invocations |-> << >>]
    /\ dateUsed = [i \in Invocations |-> 0]
    /\ usageData = [i \in Invocations |-> None]
    /\ writes = [i \in Invocations |-> 0]
    /\ error = [i \in Invocations |-> NoError]
    /\ aggRecords = << >>
    /\ aggIdx = 1
    /\ aggTotals = TotalsZero

\* The clock advances between any two steps.
Tick ==
    /\ clock < MaxClock
    /\ clock' = clock + 1
    /\ UNCHANGED <<db, lastWriter, invVars, aggVars>>

\* `throw new Error(...)`, or a rejected await: the invocation ends in failure.
Throw(i, err) ==
    /\ pc' = [pc EXCEPT ![i] = "failed"]
    /\ error' = [error EXCEPT ![i] = err]
    /\ endTime' = [endTime EXCEPT ![i] = clock]

\* A slip: nothing is written when there are no records.
Persist_skip(i, recs, date) ==
    /\ usageData' = [usageData EXCEPT ![i] =
            IF variant[i] = "A"
            THEN UsageDataA(AggregateA(recs), date, clock)
            ELSE UsageDataB(AggregateB(recs), clock)]
    /\ writes' = [writes EXCEPT ![i] = IF recs = << >> THEN @ ELSE @ + 1]
    /\ pc' = [pc EXCEPT ![i] = IF recs = << >> THEN "done" ELSE "await_set"]

\* Lines 86-140 (A) and 194-213 (B): reduce, build usageData, call set().
Persist(i, recs, date) ==
    /\ usageData' = [usageData EXCEPT ![i] =
            IF variant[i] = "A"
            THEN UsageDataA(AggregateA(recs), date, clock)
            ELSE UsageDataB(AggregateB(recs), clock)]
    /\ writes' = [writes EXCEPT ![i] = @ + 1]
    /\ pc' = [pc EXCEPT ![i] = "await_set"]

\* A slip: both days requested at once.
Invoke_parallel(i, v, k) ==
    /\ pc[i] = "idle"
    /\ variant' = [variant EXCEPT ![i] = v]
    /\ key' = [key EXCEPT ![i] = k]
    /\ startTime' = [startTime EXCEPT ![i] = clock]
    /\ IF KeyMissing(k)
       THEN /\ Throw(i, [kind |-> "config"])
            /\ UNCHANGED <<now, calls, inflight>>
       ELSE /\ now' = [now EXCEPT ![i] = clock]
            /\ calls' = [calls EXCEPT ![i] =
                    IF v = "A"
                    THEN <<PrimaryRequest(v, clock), FallbackRequest(clock)>>
                    ELSE <<PrimaryRequest(v, clock)>>]
            /\ inflight' = [inflight EXCEPT ![i] =
                    IF v = "A" THEN {"primary", "fallback"} ELSE {"primary"}]
            /\ pc' = [pc EXCEPT ![i] = "await_primary"]
            /\ UNCHANGED <<endTime, error>>
    /\ UNCHANGED <<clock, db, lastWriter, resp, fallbackResp, records, dateUsed,
                   usageData, writes, aggVars>>

\* Lines 27-45 (A), 167-184 (B): read the key, take `now`, issue the primary
\* fetch.
Invoke(i, v, k) ==
    /\ pc[i] = "idle"
    /\ variant' = [variant EXCEPT ![i] = v]
    /\ key' = [key EXCEPT ![i] = k]
    /\ startTime' = [startTime EXCEPT ![i] = clock]
    /\ IF KeyMissing(k)
       THEN /\ Throw(i, [kind |-> "config"])
            /\ UNCHANGED <<now, calls, inflight>>
       ELSE /\ now' = [now EXCEPT ![i] = clock]
            /\ calls' = [calls EXCEPT ![i] = Append(@, PrimaryRequest(v, clock))]
            /\ inflight' = [inflight EXCEPT ![i] = {"primary"}]
            /\ pc' = [pc EXCEPT ![i] = "await_primary"]
            /\ UNCHANGED <<endTime, error>>
    /\ UNCHANGED <<clock, db, lastWriter, resp, fallbackResp, records, dateUsed,
                   usageData, writes, aggVars>>

\* `await fetch(url, ...)` rejects: the error propagates to the caller.
PrimaryReject(i) ==
    /\ pc[i] = "await_primary"
    /\ inflight' = [inflight EXCEPT ![i] = @ \ {"primary"}]
    /\ Throw(i, [kind |-> "network", call |-> "primary"])
    /\ UNCHANGED <<clock, db, lastWriter, variant, key, startTime, now, calls,
                   resp, fallbackResp, records, dateUsed, usageData, writes,
                   aggVars>>

\* `await fetch(url, ...)` resolves with a Response.
PrimaryResolve(i, r) ==
    /\ pc[i] = "await_primary"
    /\ r \in Responses(variant[i])
    /\ inflight' = [inflight EXCEPT ![i] = @ \ {"primary"}]
    /\ resp' = [resp EXCEPT ![i] = r]
    /\ pc' = [pc EXCEPT ![i] = "primary_body"]
    /\ UNCHANGED <<clock, db, lastWriter, variant, key, startTime, endTime, now,
                   calls, fallbackResp, records, dateUsed, usageData, writes,
                   error, aggVars>>

\* Lines 47-83 (A), 186-201 (B): the body of the primary response is read;
\* the invocation throws, issues the fallback fetch, or reduces and writes.
PrimaryBody(i) ==
    /\ pc[i] = "primary_body"
    /\ LET r == resp[i]
           today == IsoDate(now[i])
       IN  IF ~IsOk(r.status)
           THEN /\ Throw(i, [kind |-> "api", status |-> r.status,
                             text |-> r.body.text])
                /\ UNCHANGED <<calls, inflight, records, dateUsed, usageData,
                               writes>>
           ELSE IF ~Parses(r.body)
           THEN /\ Throw(i, [kind |-> "parse", call |-> "primary"])
                /\ UNCHANGED <<calls, inflight, records, dateUsed, usageData,
                               writes>>
           ELSE IF variant[i] = "A" /\ FallbackNeeded(DataOf(r.body))
           THEN /\ records' = [records EXCEPT ![i] = DataOf(r.body)]
                /\ dateUsed' = [dateUsed EXCEPT ![i] = today]
                /\ calls' = [calls EXCEPT ![i] = Append(@, FallbackRequest(now[i]))]
                /\ inflight' = [inflight EXCEPT ![i] = @ \cup {"fallback"}]
                /\ pc' = [pc EXCEPT ![i] = "await_fallback"]
                /\ UNCHANGED <<usageData, writes, endTime, error>>
           ELSE /\ records' = [records EXCEPT ![i] = DataOf(r.body)]
                /\ dateUsed' = [dateUsed EXCEPT ![i] =
                        IF variant[i] = "A" THEN today ELSE @]
                /\ Persist(i, DataOf(r.body), today)
                /\ UNCHANGED <<calls, inflight, endTime, error>>
    /\ UNCHANGED <<clock, db, lastWriter, variant, key, startTime, now, resp,
                   fallbackResp, aggVars>>

\* The fallback `await fetch(...)` rejects: nothing catches it.
FallbackReject(i) ==
    /\ pc[i] = "await_fallback"
    /\ inflight' = [inflight EXCEPT ![i] = @ \ {"fallback"}]
    /\ Throw(i, [kind |-> "network", call |-> "fallback"])
    /\ UNCHANGED <<clock, db, lastWriter, variant, key, startTime, now, calls,
                   resp, fallbackResp, records, dateUsed, usageData, writes,
                   aggVars>>

\* Lines 67-77: the fallback fetch resolves; a Response that is not ok is
\* skipped and the invocation goes on with what it has.
FallbackResolve(i, r) ==
    /\ pc[i] = "await_fallback"
    /\ r \in Responses(variant[i])
    /\ inflight' = [inflight EXCEPT ![i] = @ \ {"fallback"}]
    /\ fallbackResp' = [fallbackResp EXCEPT ![i] = r]
    /\ IF IsOk(r.status)
       THEN /\ pc' = [pc EXCEPT ![i] = "fallback_body"]
            /\ UNCHANGED <<usageData, writes>>
       ELSE Persist(i, records[i], dateUsed[i])
    /\ UNCHANGED <<clock, db, lastWriter, variant, key, startTime, endTime, now,
                   calls, resp, records, dateUsed, error, aggVars>>

\* Lines 78-81: the fallback body is parsed and replaces records and dateUsed.
FallbackBody(i) ==
    /\ pc[i] = "fallback_body"
    /\ LET body == fallbackResp[i].body
           yesterdayStr == IsoDate(Yesterday(now[i]))
       IN  IF ~Parses(body)
           THEN /\ Throw(i, [kind |-> "parse", call |-> "fallback"])
                /\ UNCHANGED <<records, dateUsed, usageData, writes>>
           ELSE /\ records' = [records EXCEPT ![i] = DataOf(body)]
                /\ dateUsed' = [dateUsed EXCEPT ![i] = yesterdayStr]
                /\ Persist(i, DataOf(body), yesterdayStr)
                /\ UNCHANGED <<endTime, error>>
    /\ UNCHANGED <<clock, db, lastWriter, variant, key, startTime, now, calls,
                   inflight, resp, fallbackResp, aggVars>>

\* Lines 140-142, 213-215: set() is applied and the invocation returns
\* { success: true, data: usageData }.
SetResolve(i) ==
    /\ pc[i] = "await_set"
    /\ db' = SetValue(db, usageData[i])
    /\ lastWriter' = i
    /\ pc' = [pc EXCEPT ![i] = "done"]
    /\ endTime' = [endTime EXCEPT ![i] = clock]
    /\ UNCHANGED <<clock, variant, key, startTime, now, calls, inflight, resp,
                   fallbackResp, records, dateUsed, usageData, writes, error,
                   aggVars>>

\* `await ...set(usageData)` rejects: nothing is stored, the error propagates.
SetReject(i) ==
    /\ pc[i] = "await_set"
    /\ Throw(i, [kind |-> "database"])
    /\ UNCHANGED <<clock, db, lastWriter, variant, key, startTime, now, calls,
                   inflight, resp, fallbackResp, records, dateUsed, usageData,
                   writes, aggVars>>

Next ==
    \/ Tick
    \/ \E i \in Invocations, v \in {"A", "B"}, k \in KeyValues : Invoke(i, v, k)
    \/ \E i \in Invocations : PrimaryReject(i)
    \/ \E i \in Invocations, r \in Responses("A") \cup Responses("B") :
            PrimaryResolve(i, r)
    \/ \E i \in Invocations : PrimaryBody(i)
    \/ \E i \in Invocations : FallbackReject(i)
    \/ \E i \in Invocations, r \in Responses("A") : FallbackResolve(i, r)
    \/ \E i \in Invocations : FallbackBody(i)
    \/ \E i \in Invocations : SetResolve(i)
    \/ \E i \in Invocations : SetReject(i)

Spec == Init /\ [][Next]_vars

----------------------------------------------------------------------------
(* The reduction loop of variant A on its own, one iteration per step *)

AggInit ==
    /\ clock = StartClock
    /\ db = PriorValue
    /\ lastWriter = 0
    /\ pc = [i \in Invocations |-> "idle"]
    /\ variant = [i \in Invocations |-> "A"]
    /\ key = [i \in Invocations |-> Absent]
    /\ startTime = [i \in Invocations |-> 0]
    /\ endTime = [i \in Invocations |-> 0]
    /\ now = [i \in Invocations |-> 0]
    /\ calls = [i \in Invocations |-> << >>]
    /\ inflight = [i \in Invocations |-> {}]
    /\ resp = [i \in Invocations |-> None]
    /\ fallbackResp = [i \in Invocations |-> None]
    /\ records = [i \in Invocations |-> << >>]
    /\ dateUsed = [i \in Invocations |-> 0]
    /\ usageData = [i \in Invocations |-> None]
    /\ writes = [i \in Invocations |-> 0]
    /\ error = [i \in Invocations |-> NoError]
    /\ aggRecords \in RecordLists
    /\ aggIdx = 1
    /\ aggTotals = TotalsZero

\* One iteration of `for (const record of records)`.
ReduceStep ==
    /\ aggIdx <= Len(aggRecords)
    /\ aggTotals' = AddRecord(aggTotals, aggRecords[aggIdx])
    /\ aggIdx' = aggIdx + 1
    /\ UNCHANGED <<aggRecords, clock, db, lastWriter, invVars>>

AggNext == ReduceStep

SpecAgg == AggInit /\ [][AggNext]_vars

----------------------------------------------------------------------------
(* Vocabulary of the properties *)

Finished(i) == pc[i] \in {"done", "failed"}

\* a success status, as HTTP defines it
SuccessStatus(st) == st \in 200..299

\* the calendar day of the invocation's start, and the day before it
CurrentDay(i) == now[i] \div TicksPerDay
PriorDay(i) == (now[i] \div TicksPerDay) - 1

\* the primary response has been received and read
PrimaryRead(i) == pc[i] \notin {"idle", "await_primary", "primary_body"} /\ resp[i] # None

\* the primary call succeeded: a success status and a body that parses
PrimarySucceeded(i) ==
    /\ PrimaryRead(i)
    /\ SuccessStatus(resp[i].status)
    /\ "obj" \in DOMAIN resp[i].body

PrimaryRecordCount(i) ==
    IF "data" \in DOMAIN resp[i].body.obj THEN Len(resp[i].body.obj.data) ELSE 0

FallbackIssued(i) == \E n \in 1..Len(calls[i]) : calls[i][n].call = "fallback"

FallbackSettled(i) == fallbackResp[i] # None

ThrownByFallback(i) ==
    /\ pc[i] = "failed"
    /\ error[i].kind \in {"network", "parse"}
    /\ error[i].call = "fallback"

----------------------------------------------------------------------------
(* C1: in both variants, an absent or empty credential makes the invocation
   fail at once, with the configuration error, having issued no outbound
   call. *)
C1_NoKeyNoCall ==
    \A i \in Invocations :
        (pc[i] # "idle" /\ key[i] \in {Absent, ""}) =>
            /\ pc[i] = "failed"
            /\ error[i] = [kind |-> "config"]
            /\ calls[i] = << >>
            /\ inflight[i] = {}
            /\ endTime[i] = startTime[i]

C1_Witness ==
    \E i, j \in Invocations :
        /\ pc[i] = "failed" /\ variant[i] = "A" /\ key[i] = ""
        /\ pc[j] = "failed" /\ variant[j] = "B" /\ key[j] = Absent
        /\ calls[i] = << >> /\ calls[j] = << >>

(* C2: a primary response with a non-success status fails the invocation with
   an error carrying that status and the body text; the invocation issues no
   set() and no fallback call, and leaves the stored value as it was. *)
C2_PrimaryErrorFails ==
    \A i \in Invocations :
        (PrimaryRead(i) /\ ~SuccessStatus(resp[i].status)) =>
            /\ pc[i] = "failed"
            /\ error[i] = [kind |-> "api", status |-> resp[i].status,
                           text |-> resp[i].body.text]
            /\ writes[i] = 0
            /\ usageData[i] = None
            /\ lastWriter # i
            /\ Len(calls[i]) = 1
            /\ ~FallbackIssued(i)

C2_Witness ==
    \E i \in Invocations :
        /\ pc[i] = "failed"
        /\ resp[i] # None
        /\ resp[i].status = 500
        /\ error[i].kind = "api"
        /\ error[i].status = 500
        /\ db = PriorValue

(* C3, as claimed: in variant A, after a successful primary call with zero
   records, two outbound calls were made and the summary's date is the prior
   calendar day, whatever the fallback call did. *)
C3_Original ==
    \A i \in Invocations :
        (variant[i] = "A" /\ PrimarySucceeded(i) /\ PrimaryRecordCount(i) = 0
            /\ usageData[i] # None) =>
            /\ Len(calls[i]) = 2
            /\ usageData[i].date = PriorDay(i)

(* C3, amended: in variant A, after a successful primary call with zero
   records, exactly two outbound calls are made; a resulting summary's date is
   the prior calendar day if the fallback returned a success status and the
   current calendar day if it returned a non-success status. *)
C3_FallbackDate ==
    \A i \in Invocations :
        (variant[i] = "A" /\ PrimarySucceeded(i) /\ PrimaryRecordCount(i) = 0) =>
            /\ Len(calls[i]) = 2
            /\ calls[i][2] = [call |-> "fallback", endpoint |-> "claude_code",
                              starting_at |-> PriorDay(i)]
            /\ usageData[i] # None =>
                /\ FallbackSettled(i)
                /\ usageData[i].date =
                        IF SuccessStatus(fallbackResp[i].status)
                        THEN PriorDay(i) ELSE CurrentDay(i)

C3_Witness ==
    \E i \in Invocations :
        /\ variant[i] = "A" /\ pc[i] = "done"
        /\ PrimaryRecordCount(i) = 0
        /\ Len(calls[i]) = 2
        /\ fallbackResp[i].status = 200
        /\ usageData[i].date = PriorDay(i)
        /\ usageData[i].sessions = 2

(* C4: in variant A, after a successful primary call with at least one record,
   exactly one outbound call was made (no fallback) and the summary's date is
   the current calendar day. *)
C4_NoFallbackWhenData ==
    \A i \in Invocations :
        (variant[i] = "A" /\ PrimarySucceeded(i) /\ PrimaryRecordCount(i) >= 1) =>
            /\ Len(calls[i]) = 1
            /\ ~FallbackIssued(i)
            /\ fallbackResp[i] = None
            /\ usageData[i] # None
            /\ usageData[i].date = CurrentDay(i)

C4_Witness ==
    \E i \in Invocations :
        /\ variant[i] = "A" /\ pc[i] = "done"
        /\ PrimaryRecordCount(i) = 1
        /\ Len(calls[i]) = 1
        /\ usageData[i].date = CurrentDay(i)
        /\ clock > now[i]

(* C5, as claimed: in variant A no outcome of the fallback call (a non-success
   status, an unparsable body, a body without data, a network rejection) makes
   the invocation throw. *)
C5_FallbackNeverFails ==
    \A i \in Invocations : ~ThrownByFallback(i)

(* Sums computed field by field, for comparison with the loop *)

\* the value found by following a path of field names, zero where a step is absent
RECURSIVE PathValue(_, _)
PathValue(obj, path) ==
    IF path = << >> THEN obj
    ELSE IF Head(path) \in DOMAIN obj
         THEN PathValue(obj[Head(path)], Tail(path))
         ELSE 0

\* the sum of a function's values over its finite domain
RECURSIVE SumFn(_)
SumFn(f) ==
    IF DOMAIN f = {} THEN 0
    ELSE LET x == CHOOSE y \in DOMAIN f : TRUE
         IN  f[x] + SumFn([y \in DOMAIN f \ {x} |-> f[y]])

\* every (record, model entry) position of a list of records
ModelEntries(recs) ==
    UNION {IF "model_breakdown" \in DOMAIN recs[r]
           THEN {<<r, m>> : m \in 1..Len(recs[r].model_breakdown)}
           ELSE {} : r \in 1..Len(recs)}

SumOverModels(recs, path) ==
    SumFn([e \in ModelEntries(recs) |->
            PathValue(recs[e[1]].model_breakdown[e[2]], path)])

SumOverRecords(recs, path) ==
    SumFn([r \in 1..Len(recs) |-> PathValue(recs[r], path)])

ExpectedSummary(recs) ==
    [input_tokens |-> SumOverModels(recs, <<"tokens", "input">>),
     output_tokens |-> SumOverModels(recs, <<"tokens", "output">>),
     cache_read_tokens |-> SumOverModels(recs, <<"tokens", "cache_read">>),
     cache_creation_tokens |-> SumOverModels(recs, <<"tokens", "cache_creation">>),
     estimated_cost_cents |-> SumOverModels(recs, <<"estimated_cost", "amount">>),
     sessions |-> SumOverRecords(recs, <<"core_metrics", "num_sessions">>),
     lines_added |-> SumOverRecords(recs, <<"core_metrics", "lines_of_code", "added">>),
     lines_removed |-> SumOverRecords(recs, <<"core_metrics", "lines_of_code", "removed">>),
     commits |-> SumOverRecords(recs, <<"core_metrics", "commits_by_claude_code">>),
     pull_requests |-> SumOverRecords(recs, <<"core_metrics", "pull_requests_by_claude_code">>)]

(* C6: for any list of UsageRecords, after the reduction loop has consumed a
   prefix of the list each of the ten totals of the summary is the arithmetic
   sum of its field over the records consumed and over every entry of their
   model_breakdown, an absent object or leaf counting as zero; for the empty
   list all ten are zero. *)
C6_TotalsAreSums ==
    LET consumed == SubSeq(aggRecords, 1, aggIdx - 1)
        summary == UsageDataA(aggTotals, 0, 0)
        expected == ExpectedSummary(consumed)
    IN  /\ \A f \in DOMAIN expected : summary[f] = expected[f]
        /\ consumed = << >> =>
                \A f \in DOMAIN expected : summary[f] = 0

C6_Witness ==
    /\ aggRecords = <<TwoModelRecord, ExampleRecord>>
    /\ aggIdx = 3
    /\ aggTotals.totalInput = 107
    /\ aggTotals.totalCacheCreation = 4
    /\ aggTotals.totalLinesRemoved = 3
    /\ aggTotals.totalCostCents = 13

(* C7, as claimed: every invocation, once over, has made exactly one write to
   the storage path. *)
C7_Original ==
    \A i \in Invocations : Finished(i) => writes[i] = 1

(* C7, amended: no invocation writes more than once; an invocation that
   returns { success: true } has written exactly once and its write replaced
   the stored value whole; an invocation that throws before it reaches set()
   (missing credential, failed primary call, rejected or unparsable response)
   has written nothing. *)
C7_AtMostOneWrite ==
    \A i \in Invocations :
        /\ writes[i] <= 1
        /\ pc[i] = "done" => writes[i] = 1
        /\ (pc[i] = "done" /\ lastWriter = i) => db = usageData[i]
        /\ (pc[i] = "failed" /\ error[i].kind # "database") =>
                (writes[i] = 0 /\ lastWriter # i)
        /\ writes[i] = 0 => lastWriter # i

C7_Witness ==
    \E i, j \in Invocations :
        /\ pc[i] = "done" /\ writes[i] = 1 /\ lastWriter = i
        /\ db = usageData[i]
        /\ usageData[i].input_tokens = 0
        /\ pc[j] = "failed" /\ writes[j] = 0

(* C8: with a monotonic clock, the stored value's last_updated is no earlier
   than the start and no later than the end of the invocation that wrote
   it. *)
C8_LastUpdatedWithinInvocation ==
    lastWriter # 0 =>
        /\ db.last_updated >= startTime[lastWriter]
        /\ Finished(lastWriter) => db.last_updated <= endTime[lastWriter]

C8_Witness ==
    /\ lastWriter # 0
    /\ Finished(lastWriter)
    /\ startTime[lastWriter] < db.last_updated
    /\ db.last_updated < endTime[lastWriter]
    /\ \E j \in Invocations : j # lastWriter /\ pc[j] = "done"

(* C9: under any interleaving of concurrent invocations the stored value is
   the initial value or the whole summary of one invocation that wrote, never
   a mix; once every invocation is over it is the summary of the invocation
   whose write was applied last. *)
C9_LastWriteWins ==
    /\ \/ db = PriorValue
       \/ \E i \in Invocations : writes[i] = 1 /\ db = usageData[i]
    /\ lastWriter = 0 => db = PriorValue
    /\ ((\A i \in Invocations : Finished(i)) /\ lastWriter # 0) =>
            db = usageData[lastWriter]

C9_Witness ==
    \E i, j \in Invocations :
        /\ \A n \in Invocations : Finished(n)
        /\ pc[i] = "done" /\ pc[j] = "done"
        /\ variant[i] = "A" /\ variant[j] = "B"
        /\ lastWriter = j
        /\ db = usageData[j]
        /\ db # usageData[i]

(* C10: in a variant A invocation at most one outbound call is outstanding at
   any time; the fallback call is issued only after the primary response has
   been read and found to hold zero records; set() is issued only when no
   outbound call is outstanding. *)
C10_SequentialCalls ==
    \A i \in Invocations :
        /\ Cardinality(inflight[i]) <= 1
        /\ FallbackIssued(i) =>
            /\ variant[i] = "A"
            /\ calls[i][1].call = "primary"
            /\ PrimarySucceeded(i)
            /\ PrimaryRecordCount(i) = 0
        /\ writes[i] >= 1 => inflight[i] = {}
        /\ pc[i] = "await_set" => (inflight[i] = {} /\ writes[i] = 1)

C10_Witness ==
    \E i \in Invocations :
        /\ variant[i] = "A"
        /\ pc[i] = "await_set"
        /\ Len(calls[i]) = 2
        /\ inflight[i] = {}
        /\ fallbackResp[i] # None

====
